---- MODULE Spec2Model ----
(***************************************************************************)
(* Model of examples/gensim_doc2vec.py: the corpus scan with its label     *)
(* extraction, the caching iterator LlamapunTokenizedDocumentIterator and  *)
(* the docs2vec orchestration of the external Doc2Vec trainer.             *)
(*                                                                         *)
(* Strings are sequences of one-character strings.  Python indices are     *)
(* 0-based: the element at Python index i of a list is element i + 1 of    *)
(* the sequence that models it.  The learning rate is kept in thousandths  *)
(* (0.025 is 25, 0.002 is 2).                                              *)
(***************************************************************************)
EXTENDS Integers, Sequences, FiniteSets, TLC

\* ------------------------------------------------------------------ bounds

\* Number of directory entries the walk of the corpus root enumerates.
MaxFiles == 4

\* Number of traversals a client of the iterator starts.
MaxTraversals == 3

\* Number of directory entries in a listing the scan alone is applied to.
MaxListing == 3

\* Largest slice bound, besides the script's own, the scan alone is applied
\* with.
MaxCap == 2

\* ------------------------------------------------------- program constants

\* paths[0:50000], labels[0:50000]
Cap == 50000

\* model.train(..., epochs=10, ...)
Epochs == 10

\* Doc2Vec(..., alpha=0.025, min_alpha=0.025), in thousandths
Alpha0 == 25

MinAlpha0 == 25

\* model.alpha -= 0.002, in thousandths
AlphaDelta == 2

\* ------------------------------------------------------------------ helpers

Min(a, b) == IF a < b THEN a ELSE b

Lower == {"a", "b", "h", "l", "m", "n", "p", "t", "x"}

Digit == {"0", "1", "2", "3", "9"}

Space == {" "}

HtmlExt == <<".", "h", "t", "m", "l">>

\* str.endswith
EndsWith(s, suffix) ==
    /\ Len(s) >= Len(suffix)
    /\ SubSeq(s, Len(s) - Len(suffix) + 1, Len(s)) = suffix

\* The entries os.walk enumerates under the corpus root, in its order:
\* the directory and the file name of each.
Walk ==
    << [dir |-> "r",   name |-> <<"a", "b", "9", ".", "h", "t", "m", "l">>],
       [dir |-> "r",   name |-> <<"1", "2", ".", "3", ".", "h", "t", "m", "l">>],
       [dir |-> "r",   name |-> <<"n", ".", "t", "x", "t">>],
       [dir |-> "r/s", name |-> <<"p", "n", ".", "h", "t", "m", "l">>],
       [dir |-> "r/s", name |-> <<".", "h", "t", "m", "l">>],
       [dir |-> "r/s", name |-> <<"a", "1", ".", "h", "t", "m", "l">>] >>

\* Further entries a corpus root may hold.
MoreEntries ==
    << [dir |-> "r",   name |-> <<"A", "b", "9", ".", "h", "t", "m", "l">>],
       [dir |-> "r/s", name |-> <<"a", ".", "h", "t", "m", "l">>] >>

Pool == Walk \o MoreEntries

\* The listings of at most n distinct entries of Pool, in any order.
Listings(n) ==
    UNION { { [k \in 1..m |-> Pool[f[k]]] :
                f \in { g \in [1..m -> 1..Len(Pool)] :
                           \A i, j \in 1..m : g[i] = g[j] => i = j } } :
            m \in 0..n }

\* The length of the longest prefix of s from position i on whose characters
\* all satisfy: not in the set stop.
RECURSIVE RunLength(_, _, _)
RunLength(s, i, stop) ==
    IF i > Len(s) \/ s[i] \in stop THEN 0 ELSE 1 + RunLength(s, i + 1, stop)

\* Mutant of MatchOldId: the pattern stops at a dot as well, ^([a-z][^\d.]+).
MatchOldId_NoDot(filename) ==
    IF /\ Len(filename) >= 2
       /\ filename[1] \in Lower
       /\ filename[2] \notin (Digit \cup {"."})
    THEN SubSeq(filename, 1, 1 + RunLength(filename, 2, Digit \cup {"."}))
    ELSE <<>>

\* re.match("^([a-z][^\d]+)", filename): the matched text, or <<>> for None.
MatchOldId(filename) ==
    IF /\ Len(filename) >= 2
       /\ filename[1] \in Lower
       /\ filename[2] \notin Digit
    THEN SubSeq(filename, 1, 1 + RunLength(filename, 2, Digit))
    ELSE <<>>

\* re.match("^([^.])+", filename): the matched text, or <<>> for None.
MatchBeforeDot(filename) ==
    SubSeq(filename, 1, RunLength(filename, 1, {"."}))

\* Mutant of LabelOf: the two patterns are tried in the other order.
LabelOf_DotFirst(filename) ==
    IF MatchBeforeDot(filename) # <<>> THEN MatchBeforeDot(filename)
    ELSE IF MatchOldId(filename) # <<>> THEN MatchOldId(filename)
    ELSE filename

\* The label the scan loop gives a file name.
LabelOf(filename) ==
    IF MatchOldId(filename) # <<>> THEN MatchOldId(filename)
    ELSE IF MatchBeforeDot(filename) # <<>> THEN MatchBeforeDot(filename)
    ELSE filename

\* directory + "/" + filename
PathOf(entry) == <<entry.dir, "/">> \o entry.name

\* The scan loop over the entries fs: the .html files, in order.
RECURSIVE ScanPaths(_)
ScanPaths(fs) ==
    IF fs = <<>> THEN <<>>
    ELSE IF EndsWith(Head(fs).name, HtmlExt)
         THEN <<PathOf(Head(fs))>> \o ScanPaths(Tail(fs))
         ELSE ScanPaths(Tail(fs))

RECURSIVE ScanLabels(_)
ScanLabels(fs) ==
    IF fs = <<>> THEN <<>>
    ELSE IF EndsWith(Head(fs).name, HtmlExt)
         THEN <<LabelOf(Head(fs).name)>> \o ScanLabels(Tail(fs))
         ELSE ScanLabels(Tail(fs))

\* lst[0:cap]
Truncate(lst, cap) == SubSeq(lst, 1, Min(Len(lst), cap))

\* os.walk(corpus_path) with the default onerror: a root that cannot be
\* listed is skipped silently and the walk enumerates nothing.
WalkEntries(fs, readable) == IF readable THEN fs ELSE <<>>

\* ---------------------------------------------------------------- tokenizer

\* What the foreign call tokenize_path can hand back: a NULL pointer (None
\* through c_char_p), or a byte string; "FF" stands for a byte that is not
\* valid UTF-8.
TokOutcomes ==
    { [null |-> TRUE,  bytes |-> <<>>],
      [null |-> FALSE, bytes |-> <<>>],
      [null |-> FALSE, bytes |-> <<"a", " ", "b">>],
      [null |-> FALSE, bytes |-> <<" ", "b", " ", " ">>],
      [null |-> FALSE, bytes |-> <<"a", "FF">>] }

\* tokenized.decode('utf-8') succeeds: tokenized is not None and holds no
\* invalid byte.
Decodes(tokenized) ==
    /\ ~tokenized.null
    /\ \A k \in 1..Len(tokenized.bytes) : tokenized.bytes[k] # "FF"

\* str.split(): the maximal runs of non-whitespace characters, in order.
RECURSIVE SplitWords(_, _, _)
SplitWords(s, cur, acc) ==
    IF s = <<>> THEN (IF cur = <<>> THEN acc ELSE Append(acc, cur))
    ELSE IF Head(s) \in Space
         THEN SplitWords(Tail(s), <<>>, IF cur = <<>> THEN acc ELSE Append(acc, cur))
         ELSE SplitWords(Tail(s), Append(cur, Head(s)), acc)

Split(s) == SplitWords(s, <<>>, <<>>)

\* TaggedDocument(words, [self.labels_list[idx]])
TaggedDocument(words, tags) == [words |-> words, tags |-> tags]

NoItem == TaggedDocument(<<>>, <<>>)

\* ----------------------------------------------------------------- state

VARIABLES
    files,          \* the entries under the corpus root, in walk order
    root_readable,  \* whether the corpus root can be listed
    cap,            \* the bound of the slices that cap paths and labels
    paths,          \* the script's list paths
    labels,         \* the script's list labels
    pc,             \* the script's position
    path_list,      \* iterator.path_list
    labels_list,    \* iterator.labels_list
    cached_doc,     \* iterator.cached_doc
    gen,            \* the generator of the traversal last started
    yielded,        \* the items that generator has yielded, with their index
    tok_calls,      \* tokenizer calls made by that generator
    origin,         \* for each append to cached_doc: the call that produced it
    tok_ok,         \* for each tokenizer call that succeeded: its index and item
    wk,             \* the generators of concurrent workers on the one instance
    traversals,     \* traversals started so far
    full_done,      \* some traversal has run to completion
    after_full,     \* the current traversal was started when full_done held
    prev_full,      \* the traversal before the current one ran to completion
    prev_yielded,   \* what the traversal before the current one yielded
    model,          \* the Doc2Vec object's fields
    trainer_calls,  \* the calls made to the trainer, in order
    epoch,          \* epochs the train call has completed
    epoch_alpha,    \* the learning rate of each completed epoch
    vocab_passes,   \* full traversals made by build_vocab
    failure         \* what failed, once something has

iter_vars == <<path_list, labels_list, cached_doc, gen, yielded, tok_calls, origin,
               tok_ok, traversals, full_done, after_full, prev_full, prev_yielded>>

trainer_vars == <<model, trainer_calls, epoch, epoch_alpha, vocab_passes>>

script_vars == <<files, root_readable, cap, paths, labels>>

vars == <<script_vars, pc, iter_vars, wk, trainer_vars, failure>>

NoGen == [state |-> "idle", idx |-> 0, owner |-> "none"]

\* The workers that may traverse the one iterator instance at the same time.
Workers == {1, 2}

\* A worker's generator: its state, its position idx, where it stands inside
\* the loop body (phase), the item it has built and not yet appended, the
\* bytes that item was built from, what it has yielded, and the tokenizer
\* calls it has made.
NoWorker == [state |-> "idle", idx |-> 0, phase |-> "lookup", item |-> NoItem,
             bytes |-> <<>>, yielded |-> <<>>, calls |-> 0]

NoModel == [alpha |-> 0, min_alpha |-> 0, corpus_count |-> 0, total_examples |-> 0,
            vector_size |-> 0, window |-> 0, min_count |-> 0, built |-> FALSE,
            saved |-> FALSE]

Init ==
    /\ files \in {SubSeq(Walk, 1, n) : n \in 0..Min(MaxFiles, Len(Walk))}
    /\ root_readable \in BOOLEAN
    /\ cap = Cap
    /\ paths = <<>>
    /\ labels = <<>>
    /\ pc = "scan"
    /\ path_list = <<>>
    /\ labels_list = <<>>
    /\ cached_doc = <<>>
    /\ gen = NoGen
    /\ yielded = <<>>
    /\ tok_calls = 0
    /\ origin = <<>>
    /\ tok_ok = <<>>
    /\ wk = [w \in Workers |-> NoWorker]
    /\ traversals = 0
    /\ full_done = FALSE
    /\ after_full = FALSE
    /\ prev_full = FALSE
    /\ prev_yielded = <<>>
    /\ model = NoModel
    /\ trainer_calls = <<>>
    /\ epoch = 0
    /\ epoch_alpha = <<>>
    /\ vocab_passes = 0
    /\ failure = "none"

\* ------------------------------------------------------------ the script

\* Mutant of Scan: only the list of paths is capped.
Scan_LabelsUncapped ==
    /\ pc = "scan"
    /\ paths' = Truncate(ScanPaths(WalkEntries(files, root_readable)), cap)
    /\ labels' = ScanLabels(WalkEntries(files, root_readable))
    /\ pc' = "docs2vec"
    /\ UNCHANGED <<files, root_readable, cap, iter_vars, wk, trainer_vars, failure>>

\* Lines 113-141: the walk of the corpus root, the label of each .html file,
\* and the cap of both lists.
Scan ==
    /\ pc = "scan"
    /\ paths' = Truncate(ScanPaths(WalkEntries(files, root_readable)), cap)
    /\ labels' = Truncate(ScanLabels(WalkEntries(files, root_readable)), cap)
    /\ pc' = "docs2vec"
    /\ UNCHANGED <<files, root_readable, cap, iter_vars, wk, trainer_vars, failure>>

\* The scan alone, applied to any short listing and with small slice bounds
\* as well as the script's.
InitScan ==
    /\ files \in Listings(MaxListing)
    /\ root_readable \in BOOLEAN
    /\ cap \in (0..MaxCap) \cup {Cap}
    /\ paths = <<>>
    /\ labels = <<>>
    /\ pc = "scan"
    /\ path_list = <<>>
    /\ labels_list = <<>>
    /\ cached_doc = <<>>
    /\ gen = NoGen
    /\ yielded = <<>>
    /\ tok_calls = 0
    /\ origin = <<>>
    /\ tok_ok = <<>>
    /\ wk = [w \in Workers |-> NoWorker]
    /\ traversals = 0
    /\ full_done = FALSE
    /\ after_full = FALSE
    /\ prev_full = FALSE
    /\ prev_yielded = <<>>
    /\ model = NoModel
    /\ trainer_calls = <<>>
    /\ epoch = 0
    /\ epoch_alpha = <<>>
    /\ vocab_passes = 0
    /\ failure = "none"

NextScan == Scan

SpecScan == InitScan /\ [][NextScan]_vars

\* ------------------------------------------------------------ the iterator

\* __init__ (lines 49-64): the two lists are kept and the cache starts empty.
IteratorInit(pl, ll) ==
    /\ path_list' = pl
    /\ labels_list' = ll
    /\ cached_doc' = <<>>

\* Mutants of CacheHit: the lookup never finds an entry; the lookup misses
\* the last entry.
CacheHit_Never(cache, idx) == FALSE

CacheHit_OffByOne(cache, idx) == idx < Len(cache) - 1

\* self.cached_doc[idx] does not raise IndexError (line 69).
CacheHit(cache, idx) == idx < Len(cache)

\* Mutant of MakeItem: the tag is always the first label.
MakeItem_FirstLabel(tokenized, llist, idx) ==
    TaggedDocument(Split(tokenized.bytes), <<llist[1]>>)

\* Lines 75-77: the item built from what the tokenizer returned.
MakeItem(tokenized, llist, idx) ==
    TaggedDocument(Split(tokenized.bytes), <<llist[idx + 1]>>)

\* Mutant of StoreItem: the item is yielded but not kept.
StoreItem_Dropped(cache, item) == cache

\* Line 78: self.cached_doc.append(item)
StoreItem(cache, item) == Append(cache, item)

\* Mutant of CacheOnRaise: an entry is appended before the decode raises.
CacheOnRaise_Appended(cache) == Append(cache, TaggedDocument(<<>>, <<>>))

\* The cache after the miss branch (lines 72-78) has ended by raising:
\* decode or the label lookup raised before the append.
CacheOnRaise(cache) == cache

\* Mutant of GenNext: the loop ends one position late.
GenNext_StopLate(cache, plist, llist, idx, tokenized) ==
    IF idx > Len(plist)
    THEN [kind |-> "stop", item |-> NoItem, cache |-> cache, called |-> FALSE]
    ELSE IF CacheHit(cache, idx)
    THEN [kind |-> "yield", item |-> cache[idx + 1], cache |-> cache,
          called |-> FALSE]
    ELSE IF ~Decodes(tokenized) \/ idx >= Len(llist)
    THEN [kind |-> "raise", item |-> NoItem, cache |-> CacheOnRaise(cache),
          called |-> TRUE]
    ELSE [kind |-> "yield", item |-> MakeItem(tokenized, llist, idx),
          cache |-> StoreItem(cache, MakeItem(tokenized, llist, idx)),
          called |-> TRUE]

\* One resumption of the generator __iter__ (lines 67-79) that stands before
\* position idx of the enumeration: what it does up to its next yield, its
\* return or the exception it raises.  tokenized is what tokenize_path hands
\* back if it is called.
GenNext(cache, plist, llist, idx, tokenized) ==
    IF idx >= Len(plist)
    THEN [kind |-> "stop", item |-> NoItem, cache |-> cache, called |-> FALSE]
    ELSE IF CacheHit(cache, idx)
    THEN [kind |-> "yield", item |-> cache[idx + 1], cache |-> cache,
          called |-> FALSE]
    ELSE IF ~Decodes(tokenized) \/ idx >= Len(llist)
    THEN [kind |-> "raise", item |-> NoItem, cache |-> CacheOnRaise(cache),
          called |-> TRUE]
    ELSE [kind |-> "yield", item |-> MakeItem(tokenized, llist, idx),
          cache |-> StoreItem(cache, MakeItem(tokenized, llist, idx)),
          called |-> TRUE]

\* The generator's state after a resumption with result r.
GenAfter(g, r) ==
    CASE r.kind = "yield" -> [g EXCEPT !.idx = g.idx + 1]
      [] r.kind = "stop"  -> [g EXCEPT !.state = "done"]
      [] OTHER            -> [g EXCEPT !.state = "error"]

\* Mutant of NewGen: a traversal goes on where the cache ends, as a one-shot
\* stream would.
NewGen_OneShot(owner) ==
    /\ gen' = [state |-> "suspended", idx |-> Len(cached_doc), owner |-> owner]
    /\ yielded' = <<>>
    /\ tok_calls' = 0
    /\ traversals' = traversals + 1
    /\ after_full' = full_done
    /\ prev_full' = (gen.state = "done")
    /\ prev_yielded' = yielded
    /\ UNCHANGED <<path_list, labels_list, cached_doc, origin, tok_ok, full_done>>

\* iter(iterator): a new generator, standing before position 0.
NewGen(owner) ==
    /\ gen' = [state |-> "suspended", idx |-> 0, owner |-> owner]
    /\ yielded' = <<>>
    /\ tok_calls' = 0
    /\ traversals' = traversals + 1
    /\ after_full' = full_done
    /\ prev_full' = (gen.state = "done")
    /\ prev_yielded' = yielded
    /\ UNCHANGED <<path_list, labels_list, cached_doc, origin, tok_ok, full_done>>

\* next(generator) with result r; tokenized is what the tokenizer returned.
Resumed(r, tokenized) ==
    /\ gen' = GenAfter(gen, r)
    /\ cached_doc' = r.cache
    /\ yielded' = IF r.kind = "yield"
                  THEN Append(yielded, [idx |-> gen.idx, item |-> r.item])
                  ELSE yielded
    /\ tok_calls' = IF r.called THEN tok_calls + 1 ELSE tok_calls
    /\ origin' = IF Len(r.cache) > Len(cached_doc)
                 THEN Append(origin, [idx |-> gen.idx, path |-> path_list[gen.idx + 1],
                                      bytes |-> tokenized.bytes])
                 ELSE origin
    /\ tok_ok' = IF r.called /\ r.kind = "yield"
                 THEN Append(tok_ok, [idx |-> gen.idx, item |-> r.item])
                 ELSE tok_ok
    /\ full_done' = (full_done \/ r.kind = "stop")
    /\ UNCHANGED <<path_list, labels_list, traversals, after_full, prev_full,
                   prev_yielded>>

\* ------------------------------------------- a sequential client of the class

\* LlamapunTokenizedDocumentIterator(paths, labels)
Construct ==
    /\ pc = "docs2vec"
    /\ IteratorInit(paths, labels)
    /\ pc' = "client"
    /\ UNCHANGED <<script_vars, wk, gen, yielded, tok_calls, origin, tok_ok,
                   traversals, full_done, after_full, prev_full, prev_yielded,
                   trainer_vars, failure>>

\* The client starts a traversal; the one before it, if any, is over.
IterStart ==
    /\ pc = "client"
    /\ gen.state # "suspended"
    /\ traversals < MaxTraversals
    /\ NewGen("client")
    /\ UNCHANGED <<script_vars, wk, pc, trainer_vars, failure>>

\* The client asks the generator for its next item.
Resume ==
    /\ pc = "client"
    /\ gen.state = "suspended"
    /\ \E tokenized \in TokOutcomes :
          Resumed(GenNext(cached_doc, path_list, labels_list, gen.idx, tokenized),
                  tokenized)
    /\ UNCHANGED <<script_vars, wk, pc, trainer_vars, failure>>

\* The client drops the generator before its end (generator.close()).
Abandon ==
    /\ pc = "client"
    /\ gen.state = "suspended"
    /\ gen' = [gen EXCEPT !.state = "closed"]
    /\ UNCHANGED <<script_vars, wk, pc, path_list, labels_list, cached_doc, yielded,
                   tok_calls, origin, tok_ok, traversals, full_done, after_full,
                   prev_full, prev_yielded, trainer_vars, failure>>

Next == Scan \/ Construct \/ IterStart \/ Resume \/ Abandon

Spec == Init /\ [][Next]_vars

\* ------------------------------- several generators on the one instance

\* iter(iterator) by worker w: its generator, standing before position 0.
WStart(w) ==
    /\ pc = "client"
    /\ wk[w].state = "idle"
    /\ wk' = [wk EXCEPT ![w] = [NoWorker EXCEPT !.state = "suspended"]]
    /\ UNCHANGED <<script_vars, pc, iter_vars, trainer_vars, failure>>

\* What the variables of the single-generator client keep while workers run.
WorkerFrame ==
    UNCHANGED <<script_vars, pc, path_list, labels_list, gen, yielded, tok_calls,
                traversals, full_done, after_full, prev_full, prev_yielded,
                trainer_vars, failure>>

\* Worker w's generator after a resumption with result r.
WorkerAfter(g, r) ==
    CASE r.kind = "yield" ->
            [g EXCEPT !.idx = g.idx + 1,
                      !.yielded = Append(g.yielded, [idx |-> g.idx, item |-> r.item]),
                      !.calls = IF r.called THEN g.calls + 1 ELSE g.calls]
      [] r.kind = "stop"  -> [g EXCEPT !.state = "done"]
      [] OTHER            -> [g EXCEPT !.state = "error", !.calls = g.calls + 1]

\* next() on worker w's generator, run from one yield to the next without
\* another generator running in between (lines 67-79).
WResume(w) ==
    /\ pc = "client"
    /\ wk[w].state = "suspended"
    /\ \E tokenized \in TokOutcomes :
         LET r == GenNext(cached_doc, path_list, labels_list, wk[w].idx, tokenized) IN
           /\ wk' = [wk EXCEPT ![w] = WorkerAfter(wk[w], r)]
           /\ cached_doc' = r.cache
           /\ origin' = IF Len(r.cache) > Len(cached_doc)
                        THEN Append(origin, [idx |-> wk[w].idx,
                                             path |-> path_list[wk[w].idx + 1],
                                             bytes |-> tokenized.bytes])
                        ELSE origin
           /\ tok_ok' = IF r.called /\ r.kind = "yield"
                        THEN Append(tok_ok, [idx |-> wk[w].idx, item |-> r.item])
                        ELSE tok_ok
    /\ WorkerFrame

NextYield ==
    \/ Scan
    \/ Construct
    \/ \E w \in Workers : WStart(w)
    \/ \E w \in Workers : WResume(w)

SpecYield == Init /\ [][NextYield]_vars

\* Lines 67-71 in worker w, as a step of its own: the end of the loop, or the
\* lookup of cached_doc[idx], which yields the entry or raises IndexError.
WLookup(w) ==
    /\ pc = "client"
    /\ wk[w].state = "suspended"
    /\ wk[w].phase = "lookup"
    /\ wk' = [wk EXCEPT ![w] =
                IF wk[w].idx >= Len(path_list)
                THEN [wk[w] EXCEPT !.state = "done"]
                ELSE IF CacheHit(cached_doc, wk[w].idx)
                THEN [wk[w] EXCEPT
                        !.idx = wk[w].idx + 1,
                        !.yielded = Append(wk[w].yielded,
                                           [idx |-> wk[w].idx,
                                            item |-> cached_doc[wk[w].idx + 1]])]
                ELSE [wk[w] EXCEPT !.phase = "tokenize"]]
    /\ UNCHANGED <<cached_doc, origin, tok_ok>>
    /\ WorkerFrame

\* Lines 72-77 in worker w, as a step of its own: the tokenizer call (which
\* runs outside the interpreter lock), the decode and the item.
WTokenize(w) ==
    /\ pc = "client"
    /\ wk[w].state = "suspended"
    /\ wk[w].phase = "tokenize"
    /\ \E tokenized \in TokOutcomes :
         IF ~Decodes(tokenized) \/ wk[w].idx >= Len(labels_list)
         THEN /\ wk' = [wk EXCEPT ![w] = [wk[w] EXCEPT !.state = "error",
                                                        !.calls = wk[w].calls + 1]]
              /\ tok_ok' = tok_ok
         ELSE /\ wk' = [wk EXCEPT ![w] =
                         [wk[w] EXCEPT
                            !.phase = "append",
                            !.item = MakeItem(tokenized, labels_list, wk[w].idx),
                            !.bytes = tokenized.bytes,
                            !.calls = wk[w].calls + 1]]
              /\ tok_ok' = Append(tok_ok,
                                  [idx |-> wk[w].idx,
                                   item |-> MakeItem(tokenized, labels_list, wk[w].idx)])
    /\ UNCHANGED <<cached_doc, origin>>
    /\ WorkerFrame

\* Lines 78-79 in worker w, as a step of its own: the append and the yield.
WAppend(w) ==
    /\ pc = "client"
    /\ wk[w].state = "suspended"
    /\ wk[w].phase = "append"
    /\ cached_doc' = StoreItem(cached_doc, wk[w].item)
    /\ origin' = Append(origin, [idx |-> wk[w].idx,
                                 path |-> path_list[wk[w].idx + 1],
                                 bytes |-> wk[w].bytes])
    /\ wk' = [wk EXCEPT ![w] =
                [wk[w] EXCEPT
                   !.phase = "lookup",
                   !.idx = wk[w].idx + 1,
                   !.item = NoItem,
                   !.bytes = <<>>,
                   !.yielded = Append(wk[w].yielded,
                                      [idx |-> wk[w].idx, item |-> wk[w].item])]]
    /\ UNCHANGED tok_ok
    /\ WorkerFrame

NextRace ==
    \/ Scan
    \/ Construct
    \/ \E w \in Workers : WStart(w)
    \/ \E w \in Workers : WLookup(w)
    \/ \E w \in Workers : WTokenize(w)
    \/ \E w \in Workers : WAppend(w)

SpecRace == Init /\ [][NextRace]_vars

\* ------------------------------------------------ docs2vec and the script

\* The learning rate gensim's train uses in epoch e (0-based) of a call with
\* epochs=Epochs: it moves linearly from model.alpha to model.min_alpha.
EpochRate(m, e) == m.alpha - ((m.alpha - m.min_alpha) * e) \div Epochs

\* Lines 87-89: the iterator and the Doc2Vec object are created.
Docs2vecBegin ==
    /\ pc = "docs2vec"
    /\ IteratorInit(paths, labels)
    /\ model' = [alpha |-> Alpha0, min_alpha |-> MinAlpha0, corpus_count |-> 0,
                 total_examples |-> 0, vector_size |-> 300, window |-> 10,
                 min_count |-> 5, built |-> FALSE, saved |-> FALSE]
    /\ pc' = "build_vocab"
    /\ UNCHANGED <<script_vars, wk, gen, yielded, tok_calls, origin, tok_ok,
                   traversals, full_done, after_full, prev_full, prev_yielded,
                   trainer_calls, epoch, epoch_alpha, vocab_passes, failure>>

\* Mutant of BuildVocabCall: docs2vec goes on to train without the call.
BuildVocabCall_Skipped ==
    /\ pc = "build_vocab"
    /\ pc' = "train"
    /\ UNCHANGED <<script_vars, wk, iter_vars, trainer_vars, failure>>

\* Line 91: model.build_vocab(iterator) is entered and starts its traversal.
BuildVocabCall ==
    /\ pc = "build_vocab"
    /\ trainer_calls' = Append(trainer_calls, "build_vocab")
    /\ NewGen("build_vocab")
    /\ pc' = "in_build_vocab"
    /\ UNCHANGED <<script_vars, wk, model, epoch, epoch_alpha, vocab_passes, failure>>

\* build_vocab takes the next document.  At the end of the traversal it
\* returns (line 92 follows); an exception of the tokenizer step leaves
\* build_vocab, docs2vec and the script.
VocabPull ==
    /\ pc = "in_build_vocab"
    /\ gen.state = "suspended"
    /\ \E tokenized \in TokOutcomes :
         LET r == GenNext(cached_doc, path_list, labels_list, gen.idx, tokenized) IN
           /\ Resumed(r, tokenized)
           /\ model' = IF r.kind = "stop"
                       THEN [model EXCEPT !.built = TRUE,
                                          !.corpus_count = Len(yielded)]
                       ELSE model
           /\ vocab_passes' = IF r.kind = "stop" THEN vocab_passes + 1
                              ELSE vocab_passes
           /\ pc' = CASE r.kind = "stop"  -> "train"
                      [] r.kind = "raise" -> "aborted"
                      [] OTHER            -> pc
           /\ failure' = IF r.kind = "raise" THEN "tokenizer" ELSE failure
    /\ UNCHANGED <<script_vars, wk, trainer_calls, epoch, epoch_alpha>>

\* Mutant of TrainerFails: the exception is swallowed and the script goes on
\* to save the model.
TrainerFails_Swallowed ==
    /\ pc \in {"in_build_vocab", "in_train"}
    /\ pc' = "save"
    /\ failure' = "trainer"
    /\ UNCHANGED <<script_vars, wk, iter_vars, trainer_vars>>

\* build_vocab or train raises: nothing in docs2vec (lines 82-102) or in the
\* script (lines 141-143) catches it, so the run ends there.
TrainerFails ==
    /\ pc \in {"in_build_vocab", "in_train"}
    /\ pc' = "aborted"
    /\ failure' = "trainer"
    /\ UNCHANGED <<script_vars, wk, iter_vars, trainer_vars>>

\* Lines 96-97: model.train(documents=iterator, epochs=10, ...) is entered
\* and starts the traversal of its first epoch.
TrainCall ==
    /\ pc = "train"
    /\ trainer_calls' = Append(trainer_calls, "train")
    /\ epoch' = 0
    /\ NewGen("train")
    /\ pc' = "in_train"
    /\ UNCHANGED <<script_vars, wk, model, epoch_alpha, vocab_passes, failure>>

\* train takes the next document of the epoch's traversal; at its end the
\* epoch is complete, with the rate the trainer used for it.
TrainPull ==
    /\ pc = "in_train"
    /\ gen.state = "suspended"
    /\ \E tokenized \in TokOutcomes :
         LET r == GenNext(cached_doc, path_list, labels_list, gen.idx, tokenized) IN
           /\ Resumed(r, tokenized)
           /\ epoch' = IF r.kind = "stop" THEN epoch + 1 ELSE epoch
           /\ epoch_alpha' = IF r.kind = "stop"
                             THEN Append(epoch_alpha, EpochRate(model, epoch))
                             ELSE epoch_alpha
           /\ pc' = IF r.kind = "raise" THEN "aborted" ELSE pc
           /\ failure' = IF r.kind = "raise" THEN "tokenizer" ELSE failure
    /\ UNCHANGED <<script_vars, wk, model, trainer_calls, vocab_passes>>

\* train starts the traversal of its next epoch.
TrainEpochStart ==
    /\ pc = "in_train"
    /\ gen.state = "done"
    /\ epoch < Epochs
    /\ NewGen("train")
    /\ UNCHANGED <<script_vars, wk, pc, trainer_vars, failure>>

\* train returns after its last epoch.
TrainReturn ==
    /\ pc = "in_train"
    /\ gen.state = "done"
    /\ epoch = Epochs
    /\ pc' = "decay"
    /\ UNCHANGED <<script_vars, wk, iter_vars, trainer_vars, failure>>

\* Mutant of Decay: the last assignment is written the other way round.
Decay_Swapped ==
    /\ pc = "decay"
    /\ model' = [model EXCEPT !.alpha = model.alpha - AlphaDelta,
                              !.min_alpha = model.alpha - AlphaDelta,
                              !.corpus_count = model.total_examples]
    /\ pc' = "save"
    /\ UNCHANGED <<script_vars, wk, iter_vars, trainer_calls, epoch, epoch_alpha,
                   vocab_passes, failure>>

\* Lines 98-102: the assignments after the train call, and the return.
Decay ==
    /\ pc = "decay"
    /\ model' = [model EXCEPT !.alpha = model.alpha - AlphaDelta,
                              !.min_alpha = model.alpha - AlphaDelta,
                              !.total_examples = model.corpus_count]
    /\ pc' = "save"
    /\ UNCHANGED <<script_vars, wk, iter_vars, trainer_calls, epoch, epoch_alpha,
                   vocab_passes, failure>>

\* Line 143: model.save(...)
Save ==
    /\ pc = "save"
    /\ trainer_calls' = Append(trainer_calls, "save")
    /\ model' = [model EXCEPT !.saved = TRUE]
    /\ pc' = "exit"
    /\ UNCHANGED <<script_vars, wk, iter_vars, epoch, epoch_alpha, vocab_passes, failure>>

NextMain ==
    \/ Scan
    \/ Docs2vecBegin
    \/ BuildVocabCall
    \/ VocabPull
    \/ TrainerFails
    \/ TrainCall
    \/ TrainPull
    \/ TrainEpochStart
    \/ TrainReturn
    \/ Decay
    \/ Save

SpecMain == Init /\ [][NextMain]_vars

\* ------------------------------------------------- claims on the iterator

\* C1 (cache monotonicity): a traversal started after some traversal of the
\* instance has run to completion makes no tokenizer call.
C1_CacheMonotonicity == after_full => tok_calls = 0

\* A second full traversal of a corpus of two or more documents has ended
\* after a first one that ran to completion.
C1_Witness ==
    /\ after_full
    /\ gen.state = "done"
    /\ Len(path_list) >= 2
    /\ Len(yielded) = Len(path_list)

\* C2 (restart idempotence): of two consecutive full traversals, the second
\* yields the same items in the same order as the first, although the
\* tokenizer may return something else each time it is called.
C2_RestartIdempotence ==
    (gen.state = "done" /\ prev_full) => yielded = prev_yielded

C2_Witness ==
    /\ gen.state = "done"
    /\ prev_full
    /\ Len(yielded) >= 2
    /\ yielded[1].item.words # yielded[2].item.words

\* C3 (index alignment): every cache entry i was produced by the tokenizer
\* call for path_list[i], holds the words of what that call returned, and is
\* tagged with exactly labels_list[i].
C3_IndexAlignment ==
    /\ Len(origin) = Len(cached_doc)
    /\ Len(cached_doc) <= Len(labels_list)
    /\ \A i \in 1..Len(cached_doc) :
          /\ origin[i].idx = i - 1
          /\ origin[i].path = path_list[i]
          /\ cached_doc[i].words = Split(origin[i].bytes)
          /\ cached_doc[i].tags = <<labels_list[i]>>

\* The cache holds two entries or more, filled over an abandoned traversal
\* and a later one.
C3_Witness ==
    /\ Len(cached_doc) >= 2
    /\ traversals >= 2
    /\ ~prev_full
    /\ tok_calls >= 1
    /\ labels_list[1] # labels_list[2]

\* C4 (restartable): a traversal that runs to completion has yielded one
\* item per path, item k at index k being the cached document of
\* path_list[k].
C4_FullTraversal ==
    gen.state = "done" =>
        /\ Len(yielded) = Len(path_list)
        /\ \A k \in 1..Len(yielded) :
              /\ yielded[k].idx = k - 1
              /\ yielded[k].item = cached_doc[k]
              /\ origin[k].path = path_list[k]
              /\ yielded[k].item.tags = <<labels_list[k]>>

\* A traversal has run to completion after an earlier one was abandoned or
\* failed part-way, serving some items from the cache and tokenizing others.
C4_Witness ==
    /\ gen.state = "done"
    /\ traversals >= 2
    /\ ~prev_full
    /\ Len(prev_yielded) >= 1
    /\ tok_calls >= 1
    /\ Len(path_list) >= 2

\* C5 (append-only, bounded): the cache is never longer than the path list,
\* and no step shortens it or changes an entry it holds.
C5_AppendOnly ==
    /\ [](Len(cached_doc) <= Len(path_list))
    /\ [][/\ Len(cached_doc') >= Len(cached_doc)
          /\ \A i \in 1..Len(cached_doc) : cached_doc'[i] = cached_doc[i]]_vars

\* The cache is full, with two entries or more, and a later traversal is
\* under way over it.
C5_Witness ==
    /\ Len(cached_doc) = Len(path_list)
    /\ Len(cached_doc) >= 2
    /\ after_full
    /\ gen.state = "suspended"
    /\ gen.idx >= 1

\* C8 (tokenization failure): a traversal whose tokenizer call fails at
\* index i ends there: it has yielded the items of the indices below i and
\* yields no more, the failing step appends nothing, and the entries below
\* i are as they were.
C8_TokenizationFailure ==
    /\ [](gen.state = "error" =>
            /\ Len(yielded) = gen.idx
            /\ Len(cached_doc) = gen.idx
            /\ \A k \in 1..Len(yielded) : yielded[k].idx = k - 1)
    /\ [][(gen'.state = "error" /\ gen.state = "suspended") =>
            /\ cached_doc' = cached_doc
            /\ origin' = origin
            /\ yielded' = yielded
            /\ tok_calls' = tok_calls + 1]_vars
    /\ [][(gen.state = "error" /\ gen'.state = "error") =>
            UNCHANGED <<cached_doc, yielded>>]_vars

\* The tokenizer has failed at an index above 0 whose predecessors were
\* served from the cache.
C8_Witness ==
    /\ gen.state = "error"
    /\ gen.idx >= 1
    /\ tok_calls = 1
    /\ traversals >= 2

\* ---------------------------------------------- claims on the orchestration

Called(name) == \E k \in 1..Len(trainer_calls) : trainer_calls[k] = name

\* C6 (orchestration order): whenever train has been called, an epoch has
\* been counted or a training traversal exists, build_vocab was the first
\* call and has completed with its one full traversal; and while the
\* vocabulary traversal is under way nothing of the training has happened.
C6_OrchestrationOrder ==
    /\ (Called("train") \/ gen.owner = "train" \/ epoch > 0 \/ epoch_alpha # <<>>) =>
          /\ trainer_calls[1] = "build_vocab"
          /\ vocab_passes = 1
          /\ model.built
    /\ pc = "in_build_vocab" =>
          /\ gen.owner = "build_vocab"
          /\ trainer_calls = <<"build_vocab">>
          /\ epoch = 0
          /\ epoch_alpha = <<>>

\* A training traversal is under way in a later epoch over a corpus of two
\* documents or more.
C6_Witness ==
    /\ gen.owner = "train"
    /\ gen.state = "suspended"
    /\ gen.idx >= 1
    /\ epoch >= 1
    /\ Len(path_list) >= 2

\* C7 (learning-rate schedule), as the claim states it, for a corpus that is
\* not empty: each epoch runs with a rate one delta below the epoch before
\* it, the first with the initial rate.
C7_DecayPerEpoch ==
    Len(path_list) >= 1 =>
        \A k \in 1..Len(epoch_alpha) :
            epoch_alpha[k] = Alpha0 - (k - 1) * AlphaDelta

\* C9 (trainer failure is fatal): after a failure the run has stopped, with
\* no save; no step follows a failure; no call to the trainer is made
\* twice; and the model is saved only after build_vocab's full traversal and
\* all epochs of train, with no failure.
C9_TrainerFailureFatal ==
    /\ [](failure # "none" =>
            /\ pc = "aborted"
            /\ ~model.saved
            /\ ~Called("save"))
    /\ [](Called("save") =>
            /\ failure = "none"
            /\ trainer_calls = <<"build_vocab", "train", "save">>
            /\ vocab_passes = 1
            /\ epoch = Epochs
            /\ Len(epoch_alpha) = Epochs)
    /\ [](\A j, k \in 1..Len(trainer_calls) :
            trainer_calls[j] = trainer_calls[k] => j = k)
    /\ [][failure # "none" => UNCHANGED vars]_vars

\* The train call has failed after it completed an epoch over a corpus that
\* is not empty.
C9_Witness ==
    /\ failure = "trainer"
    /\ pc = "aborted"
    /\ Called("train")
    /\ epoch >= 1
    /\ Len(cached_doc) >= 1

\* C10 (unreadable corpus root), as the claim states it: with a root that
\* cannot be read, no traversal is started and no call to the trainer is
\* made.
C10_UnreadableRootAborts ==
    ~root_readable =>
        /\ trainer_calls = <<>>
        /\ gen.state = "idle"
        /\ tok_calls = 0

\* ------------------------------------------------------ claims on the scan

\* The .html entries the walk enumerates, in its order.
Found ==
    SelectSeq(WalkEntries(files, root_readable),
              LAMBDA e : EndsWith(e.name, HtmlExt))

\* The file name of a path directory + "/" + filename.
FileNameOf(path) == SubSeq(path, 3, Len(path))

\* The first position of s that holds a character of set, or Len(s) + 1.
FirstPos(s, set) ==
    IF \E k \in 1..Len(s) : s[k] \in set
    THEN CHOOSE k \in 1..Len(s) :
            s[k] \in set /\ \A j \in 1..(k - 1) : s[j] \notin set
    ELSE Len(s) + 1

\* C11 (cap enforcement): after the scan both lists have the length
\* min(N, cap) for the N .html files found (cap entries each when cap < N),
\* paths[i] is the path of the i-th file found and labels[i] is the label of
\* the file name of paths[i].
C11_CapEnforcement ==
    pc # "scan" =>
        /\ Len(paths) = Min(Len(Found), cap)
        /\ Len(labels) = Min(Len(Found), cap)
        /\ (cap < Len(Found) => Len(paths) = cap /\ Len(labels) = cap)
        /\ \A i \in 1..Len(paths) :
              /\ paths[i] = PathOf(Found[i])
              /\ labels[i] = LabelOf(FileNameOf(paths[i]))

\* The scan found more files than the bound of two or more, and cut.
C11_Witness ==
    /\ pc # "scan"
    /\ cap >= 2
    /\ cap < Len(Found)
    /\ Len(paths) = cap

\* The first rule of the label chain applies to file name f.
Rule1(f) == Len(f) >= 2 /\ f[1] \in Lower /\ f[2] \notin Digit

\* The label the rule chain of the claim gives file name f.
ChainLabel(f) ==
    IF Rule1(f) THEN SubSeq(f, 1, FirstPos(f, Digit) - 1)
    ELSE IF f[1] # "." THEN SubSeq(f, 1, FirstPos(f, {"."}) - 1)
    ELSE f

\* C12 (label rule chain): every file found gets one label, that of the
\* first rule that applies: the prefix before the first digit when the name
\* starts with a lowercase letter followed by a non-digit; else the
\* characters before the first dot when the name does not start with a dot;
\* else the whole name.
C12_LabelRuleChain ==
    pc # "scan" =>
        /\ Len(labels) = Min(Len(Found), cap)
        /\ \A i \in 1..Len(labels) : labels[i] = ChainLabel(Found[i].name)

\* A scan has labelled one file by each of the three rules.
C12_Witness ==
    /\ pc # "scan"
    /\ Len(labels) = 3
    /\ \E i, j, k \in 1..3 :
          /\ Rule1(Found[i].name) /\ labels[i] # Found[i].name
          /\ ~Rule1(Found[j].name) /\ Found[j].name[1] # "."
          /\ Found[k].name[1] = "." /\ labels[k] = Found[k].name

\* File name f is lowercase letters followed by an extension, with no digit.
PlainName(f) ==
    /\ \A k \in 1..Len(f) : f[k] \notin Digit
    /\ FirstPos(f, {"."}) \in 2..Len(f)
    /\ \A k \in 1..(FirstPos(f, {"."}) - 1) : f[k] \in Lower

\* C13 as the claim states it: a digit-free name of lowercase letters and an
\* extension is labelled with the part before its first dot.
C13_PlainNameBeforeDot ==
    \A i \in 1..Len(labels) :
        PlainName(Found[i].name) =>
            labels[i] = SubSeq(Found[i].name, 1, FirstPos(Found[i].name, {"."}) - 1)

\* C13 as amended: such a name is labelled with the whole file name, its
\* extension included.
C13_PlainNameWhole ==
    \A i \in 1..Len(labels) :
        PlainName(Found[i].name) => labels[i] = Found[i].name

\* A scan has labelled a digit-free lowercase name.
C13_Witness ==
    /\ pc # "scan"
    /\ \E i \in 1..Len(labels) :
          PlainName(Found[i].name) /\ Len(Found[i].name) >= 7

\* ------------------------------------------ further claims on the iterator

\* C14 (empty corpus): over an empty path list a traversal yields nothing,
\* calls the tokenizer never, raises nothing and leaves the cache empty, and
\* its first resumption ends it.
C14_EmptyCorpus ==
    /\ []((pc = "client" /\ path_list = <<>>) =>
            /\ gen.state \in {"idle", "suspended", "done", "closed"}
            /\ gen.idx = 0
            /\ yielded = <<>>
            /\ tok_calls = 0
            /\ cached_doc = <<>>)
    /\ [][(pc = "client" /\ path_list = <<>> /\ gen.state = "suspended"
             /\ gen' # gen) => gen'.state \in {"done", "closed"}]_vars

\* A traversal over the empty list of a readable root without .html files
\* has ended.
C14_Witness ==
    /\ pc = "client"
    /\ root_readable
    /\ path_list = <<>>
    /\ gen.state = "done"
    /\ traversals >= 2

\* C15 (tokenize at most once): no index has two successful tokenizer
\* calls, and every item a traversal yields for an index is the item the
\* first successful call for that index created.
C15_TokenizeAtMostOnce ==
    /\ \A j, k \in 1..Len(tok_ok) : tok_ok[j].idx = tok_ok[k].idx => j = k
    /\ \A k \in 1..Len(yielded) :
          \E j \in 1..Len(tok_ok) :
              /\ tok_ok[j].idx = yielded[k].idx
              /\ tok_ok[j].item = yielded[k].item
              /\ \A h \in 1..(j - 1) : tok_ok[h].idx # yielded[k].idx

\* A third traversal has run to completion, tokenizing only the last
\* document, after one that stopped short of it.
C15_Witness ==
    /\ traversals = 3
    /\ gen.state = "done"
    /\ ~prev_full
    /\ Len(yielded) >= 2
    /\ Len(prev_yielded) = Len(yielded) - 1
    /\ tok_calls = 1

\* C16 (sequential population, no gaps): a generator never stands beyond
\* the end of the cache, so a miss at index i happens only with
\* len(cached_doc) = i and the append writes position i; the entry at each
\* position is the one made for that index; a hit at i has all indices up to
\* i cached.
C16_SequentialPopulation ==
    /\ [](gen.state = "suspended" => gen.idx <= Len(cached_doc))
    /\ [](\A i \in 1..Len(origin) : origin[i].idx = i - 1)
    /\ [][Len(cached_doc') > Len(cached_doc) =>
            /\ Len(cached_doc) = gen.idx
            /\ Len(cached_doc') = gen.idx + 1
            /\ tok_calls' = tok_calls + 1]_vars
    /\ [][(gen.state = "suspended" /\ gen'.state = "suspended"
             /\ gen'.idx = gen.idx + 1 /\ tok_calls' = tok_calls) =>
            \A i \in 0..gen.idx : i < Len(cached_doc)]_vars

\* A traversal has gone past the point where the one before it was given
\* up, and stands at the end of the cache it has extended.
C16_Witness ==
    /\ gen.state = "suspended"
    /\ traversals >= 2
    /\ ~prev_full
    /\ Len(prev_yielded) >= 1
    /\ gen.idx > Len(prev_yielded)
    /\ gen.idx = Len(cached_doc)
    /\ tok_calls >= 1

\* ------------------------------------- further claims on the orchestration

\* C18 (training reads only from the cache): once build_vocab's traversal is
\* complete the cache holds every document, each tokenized by that
\* traversal, and a training traversal calls the tokenizer never.
C18_TrainingFromCache ==
    /\ vocab_passes >= 1 =>
          /\ Len(cached_doc) = Len(path_list)
          /\ Len(tok_ok) = Len(path_list)
    /\ gen.owner = "train" => tok_calls = 0 /\ vocab_passes = 1
    /\ gen.owner = "build_vocab" =>
          Len(tok_ok) = tok_calls - (IF gen.state = "error" THEN 1 ELSE 0)

\* The second training epoch has ended over a corpus of two documents or
\* more.
C18_Witness ==
    /\ gen.owner = "train"
    /\ gen.state = "done"
    /\ epoch >= 2
    /\ Len(yielded) >= 2

\* C19 as the claim states it: the assignments of docs2vec change no field
\* of the model but alpha and min_alpha.
C19_OnlyLearningRate ==
    [][pc = "decay" =>
          \A f \in DOMAIN model \ {"alpha", "min_alpha"} : model'[f] = model[f]]_vars

\* C19 as amended: the assignments of docs2vec change alpha (one delta
\* down), min_alpha (to the new alpha) and total_examples (to
\* corpus_count), and no other field of the model.
C19_FrameWithTotalExamples ==
    [][pc = "decay" =>
          /\ \A f \in DOMAIN model \ {"alpha", "min_alpha", "total_examples"} :
                model'[f] = model[f]
          /\ model'.alpha = model.alpha - AlphaDelta
          /\ model'.min_alpha = model'.alpha
          /\ model'.total_examples = model.corpus_count]_vars

\* docs2vec has made its assignments on a model built from two documents
\* or more.
C19_Witness ==
    /\ pc = "save"
    /\ model.corpus_count >= 2
    /\ model.total_examples = model.corpus_count
    /\ model.alpha = Alpha0 - AlphaDelta

\* ------------------------------------------------- claims on the workers

\* Some index has two successful tokenizer calls.
Duplicated ==
    \E j, k \in 1..Len(tok_ok) : j # k /\ tok_ok[j].idx = tok_ok[k].idx

\* Some cache position holds the document of another index: its tag is not
\* the label of its position.
Misaligned ==
    \E j \in 1..Min(Len(cached_doc), Len(labels_list)) :
        cached_doc[j].tags # <<labels_list[j]>>

\* The cache is longer than the path list.
Overflow == Len(cached_doc) > Len(path_list)

\* C17 (unsynchronised workers race): with the lookup, the tokenizer call
\* and the append as separate steps of two workers, the cache gets a
\* misplaced entry or outgrows the path list only through a document that is
\* tokenized twice and appended twice; and it holds no more than one entry
\* per worker and document.
C17_RaceByDoubleTokenization ==
    /\ (Misaligned \/ Overflow) =>
          /\ Duplicated
          /\ \E j, k \in 1..Len(origin) : j # k /\ origin[j].idx = origin[k].idx
    /\ Len(cached_doc) <= Cardinality(Workers) * Len(path_list)

\* The bad state of the claim: a document was tokenized twice and appended
\* twice, a cache position holds the document of another index, and the
\* cache is longer than the path list.
C17_Witness ==
    /\ Duplicated
    /\ \E j, k \in 1..Len(cached_doc) :
          j # k /\ origin[j].idx = origin[k].idx /\ cached_doc[j].tags = cached_doc[k].tags
    /\ \E j \in 1..Len(cached_doc) : origin[j].idx # j - 1
    /\ Misaligned
    /\ Overflow

\* C20 (interleaving at yield points is safe): with each resumption of a
\* generator atomic, the cache stays index-aligned and no longer than the
\* path list, no index is tokenized twice, and a worker whose traversal has
\* run to completion has been yielded the whole corpus in order.
C20_YieldInterleavingSafe ==
    /\ Len(origin) = Len(cached_doc)
    /\ Len(cached_doc) <= Len(path_list)
    /\ \A i \in 1..Len(cached_doc) :
          /\ origin[i].idx = i - 1
          /\ origin[i].path = path_list[i]
          /\ cached_doc[i].words = Split(origin[i].bytes)
          /\ cached_doc[i].tags = <<labels_list[i]>>
    /\ ~Duplicated
    /\ \A w \in Workers :
          /\ \A k \in 1..Len(wk[w].yielded) :
                /\ wk[w].yielded[k].idx = k - 1
                /\ wk[w].yielded[k].item = cached_doc[k]
          /\ wk[w].state = "done" => Len(wk[w].yielded) = Len(path_list)

\* Both workers have run to completion over a corpus of two documents or
\* more, each having tokenized part of it while the other was under way.
C20_Witness ==
    /\ \A w \in Workers : wk[w].state = "done" /\ wk[w].calls >= 1
    /\ Len(path_list) >= 2

====
